---- MODULE Spec2Model ----
(***************************************************************************)
(* Model of gotest's entry point (src/go/main/main.go): run() as a         *)
(* sequence of start-up steps over a persistent configuration store, the   *)
(* daily update-check gate, the CLI dispatch with its Before hook, the     *)
(* deferred closes, and getDataPath as a function of the index file.       *)
(* Time is counted in ticks of 1/TicksPerSec second; RFC3339 strings hold  *)
(* whole seconds.                                                          *)
(***************************************************************************)
EXTENDS Integers, Sequences, FiniteSets, TLC

\* ---------------------------------------------------------------- bounds
MaxRuns == 2          \* successive runs of the program over one store
TicksPerSec == 4      \* clock resolution below the second
MaxLen == 4           \* longest index file, in characters

\* ------------------------------------------------------ program constants
DefaultLogLevel == "warn"
HomeDirName == ".gotest"
Hour == 3600 * TicksPerSec
Day == 24 * Hour
Levels == {"debug", "info", "warn", "error", "none"}

\* ------------------------------------------------------------ input sets
LevelInputs == {"warn", "debug", "bogus"}
Gaps == {0, Day - 1, Day, Day + 2}     \* time between two clock reads across runs
Delays == {0, 1}                       \* time between two clock reads in a run
ArgChoices == {[set |-> FALSE, log |-> DefaultLogLevel]}
                 \cup {[set |-> TRUE, log |-> l] : l \in LevelInputs}
NoCode == -1
NoTime == -1

\* ------------------------------------------------ index file / getDataPath
LF == "LF"
CR == "CR"
Chars == {"a", " ", CR, LF}

SeqsUpTo(S, n) == UNION {[1..k -> S] : k \in 0..n}

dropCR(data) ==
    IF Len(data) > 0 /\ data[Len(data)] = CR
    THEN SubSeq(data, 1, Len(data) - 1)
    ELSE data

IndexByte(data, c) ==
    IF \E i \in 1..Len(data) : data[i] = c
    THEN CHOOSE i \in 1..Len(data) : data[i] = c /\ \A j \in 1..(i - 1) : data[j] # c
    ELSE 0

\* the tokens bufio.Scanner (ScanLines) yields over the whole file
RECURSIVE ScanLines(_)
ScanLines(data) ==
    IF Len(data) = 0 THEN <<>>
    ELSE LET i == IndexByte(data, LF) IN
         IF i > 0
         THEN <<dropCR(SubSeq(data, 1, i - 1))>> \o ScanLines(SubSeq(data, i + 1, Len(data)))
         ELSE <<dropCR(data)>>

UserHomeDir(home) == [err |-> home = <<>>, dir |-> home]

Join(dir, elem) ==
    IF Len(dir) > 0 /\ dir[Len(dir)] = "/" THEN dir \o <<elem>>
    ELSE dir \o <<"/", elem>>

getDataPath_first(in) ==
    IF in.euid = 0
    THEN IF in.openErr THEN [err |-> TRUE, path |-> <<>>]
         ELSE LET lines == ScanLines(in.content) IN
              IF in.readErr THEN [err |-> TRUE, path |-> <<>>]
              ELSE IF Len(lines) < 2 THEN [err |-> TRUE, path |-> <<>>]
              ELSE [err |-> FALSE, path |-> lines[1]]
    ELSE LET h == UserHomeDir(in.home) IN
         IF h.err THEN [err |-> TRUE, path |-> <<>>]
         ELSE [err |-> FALSE, path |-> Join(h.dir, HomeDirName)]

getDataPath(in) ==
    IF in.euid = 0
    THEN IF in.openErr THEN [err |-> TRUE, path |-> <<>>]
         ELSE LET lines == ScanLines(in.content) IN
              IF in.readErr THEN [err |-> TRUE, path |-> <<>>]
              ELSE IF Len(lines) < 2 THEN [err |-> TRUE, path |-> <<>>]
              ELSE [err |-> FALSE, path |-> lines[2]]
    ELSE LET h == UserHomeDir(in.home) IN
         IF h.err THEN [err |-> TRUE, path |-> <<>>]
         ELSE [err |-> FALSE, path |-> Join(h.dir, HomeDirName)]

PathInputs ==
    {[euid |-> 0, openErr |-> o, content |-> c, readErr |-> r, home |-> <<>>] :
        o \in BOOLEAN, c \in SeqsUpTo(Chars, MaxLen), r \in BOOLEAN}
    \cup {[euid |-> 1000, openErr |-> FALSE, content |-> <<>>, readErr |-> FALSE, home |-> h] :
        h \in {<<>>, <<"/", "h">>, <<"/", "h", "/">>}}

\* the few environments run() is started in
RunPathInputs ==
    {[euid |-> 0, openErr |-> FALSE, content |-> <<"a", LF, "a">>, readErr |-> FALSE, home |-> <<>>],
     [euid |-> 0, openErr |-> FALSE, content |-> <<"a", LF>>, readErr |-> FALSE, home |-> <<>>],
     [euid |-> 1000, openErr |-> FALSE, content |-> <<>>, readErr |-> FALSE, home |-> <<"/", "h">>]}

NoPathIn == [euid |-> 1000, openErr |-> FALSE, content |-> <<>>, readErr |-> FALSE, home |-> <<>>]
NoPathOut == [called |-> FALSE, err |-> FALSE, path |-> <<>>]

\* ------------------------------------------------------- library helpers
\* xlog's SetLevel: rejects a level name outside the list
SetLevel(cur, l) ==
    IF l \in Levels THEN [err |-> FALSE, level |-> l]
    ELSE [err |-> TRUE, level |-> cur]

\* time.Now().Format(time.RFC3339): whole seconds
Format(n) == [ok |-> TRUE, sec |-> n \div TicksPerSec]

Parse_lenient(tStr) == [err |-> FALSE, t |-> tStr.sec * TicksPerSec]

\* time.Parse(time.RFC3339, tStr)
Parse(tStr) == [err |-> ~tStr.ok, t |-> tStr.sec * TicksPerSec]

Since(t, n) == n - t

Due_inverted(t, n) == Since(t, n) < Day

Due_never(t, n) == FALSE

\* time.Since(t) > 24*time.Hour
Due(t, n) == Since(t, n) > Day

Gate_ignored(un) == "getLastUpdateCheck"

\* if updateNotify { ... }
Gate(un) == IF un THEN "getLastUpdateCheck" ELSE "appBefore"

PushDefer_fifo(stack, d) == stack \o <<d>>

\* defer: last registered runs first
PushDefer(stack, d) == <<d>> \o stack

\* if logLevel != DefaultLogLevel
FlagOverrides(logLevel) == logLevel # DefaultLogLevel

String(a) == IF a.set THEN a.log ELSE DefaultLogLevel

\* ------------------------------------------------------------------ state
VARIABLES
    cfg,          \* the persisted configuration store
    now,          \* the wall clock, in ticks
    runs,         \* runs started so far
    prevFail,     \* the latest run whose update.Check failed or crashed
    pc,           \* position of the current run
    args,         \* os.Args: the --log flag
    executed,     \* the steps of this run, in order
    failed,       \* the step of this run that returned an error
    ret,          \* run()'s return value
    exitCode,     \* the code given to os.Exit
    level,        \* the logger's level
    opens,        \* resources opened by this run, in order
    defers,       \* the deferred calls, next to run first
    closes,       \* the closes performed by this run, in order
    cfgLogLevel, updateNotify, tStr, t,   \* run()'s locals
    startTs,      \* cfg.lastUpdateCheck when the run started
    tsRead,       \* lastUpdateCheck was read by this run
    sinceAt,      \* clock at the time.Since test
    setAt,        \* clock at the config.Set of lastUpdateCheck
    checkCount,   \* calls of update.Check in this run
    checkRes,     \* outcome of update.Check
    noticeCount,  \* "Update available!" lines printed
    runStart,     \* clock when the run started
    beforeDone,   \* the Before hook returned nil
    actionLevels, \* logger level seen by each executed subcommand action
    pathIn, pathOut   \* getDataPath's environment and result

store == <<cfg, now, runs, prevFail>>
ctl == <<args, exitCode>>
flow == <<pc, executed, failed, ret>>
res == <<level, opens, defers, closes>>
locals == <<cfgLogLevel, updateNotify, tStr, t>>
obs == <<startTs, runStart, tsRead, sinceAt, setAt, checkCount, checkRes, noticeCount, beforeDone, actionLevels>>
pathVars == <<pathIn, pathOut>>
vars == <<store, ctl, flow, res, locals, obs, pathVars>>

NoFail == [some |-> FALSE, run |-> 0, start |-> 0, at |-> 0, sec |-> 0]
NoStr == [ok |-> FALSE, sec |-> 0]

CfgInit ==
    {[logLevel |-> l, updateNotify |-> u, lastUpdateCheck |-> [ok |-> k, sec |-> 0]] :
        l \in LevelInputs, u \in BOOLEAN, k \in BOOLEAN}

RunReset ==
    /\ executed = <<>> /\ failed = "none" /\ ret = NoCode /\ exitCode = NoCode
    /\ level = "unset" /\ opens = <<>> /\ defers = <<>> /\ closes = <<>>
    /\ cfgLogLevel = "" /\ updateNotify = FALSE /\ tStr = NoStr /\ t = NoTime
    /\ tsRead = FALSE /\ sinceAt = NoTime /\ setAt = NoTime
    /\ checkCount = 0 /\ checkRes = "none" /\ noticeCount = 0
    /\ beforeDone = FALSE /\ actionLevels = <<>>

Init ==
    /\ cfg \in CfgInit
    /\ now = 0 /\ runs = 0 /\ prevFail = NoFail
    /\ pc = "idle" /\ args = [set |-> FALSE, log |-> DefaultLogLevel]
    /\ startTs = NoStr /\ runStart = 0
    /\ RunReset
    /\ pathIn = NoPathIn /\ pathOut = NoPathOut

\* ------------------------------------------------------- control helpers
ErrorReturn_zero(step) ==
    /\ pc' = "return" /\ ret' = 0 /\ failed' = step
    /\ executed' = Append(executed, step)

\* fmt.Fprintf(os.Stderr, ...); return 1
ErrorReturn(step) ==
    /\ pc' = "return" /\ ret' = 1 /\ failed' = step
    /\ executed' = Append(executed, step)

\* the step returned nil: fall through to the next statement
Proceed(step, next) ==
    /\ pc' = next
    /\ executed' = Append(executed, step)
    /\ UNCHANGED <<failed, ret>>

\* ---------------------------------------------------------------- run()
\* main: the process starts, some time after the previous one ended
StartRun ==
    /\ pc \in {"idle", "exited", "crashed"}
    /\ runs < MaxRuns
    /\ \E a \in ArgChoices : args' = a
    /\ \E g \in Gaps : now' = now + g
    /\ runs' = runs + 1
    /\ pc' = "getDataPath"
    /\ startTs' = cfg.lastUpdateCheck
    /\ runStart' = now'
    /\ executed' = <<>> /\ failed' = "none" /\ ret' = NoCode /\ exitCode' = NoCode
    /\ level' = "unset" /\ opens' = <<>> /\ defers' = <<>> /\ closes' = <<>>
    /\ cfgLogLevel' = "" /\ updateNotify' = FALSE /\ tStr' = NoStr /\ t' = NoTime
    /\ tsRead' = FALSE /\ sinceAt' = NoTime /\ setAt' = NoTime
    /\ checkCount' = 0 /\ checkRes' = "none" /\ noticeCount' = 0
    /\ beforeDone' = FALSE /\ actionLevels' = <<>>
    /\ pathIn' = NoPathIn /\ pathOut' = NoPathOut
    /\ UNCHANGED <<cfg, prevFail>>

GetDataPath ==
    /\ pc = "getDataPath"
    /\ \E in \in RunPathInputs :
          LET r == getDataPath(in) IN
          /\ pathIn' = in
          /\ pathOut' = [called |-> TRUE, err |-> r.err, path |-> r.path]
          /\ IF r.err THEN ErrorReturn("getDataPath")
             ELSE Proceed("getDataPath", "mkdirData")
    /\ defers' = PushDefer(defers, "stop")
    /\ UNCHANGED <<store, ctl, level, opens, closes, locals, obs>>

MkdirData ==
    /\ pc = "mkdirData"
    /\ \E ok \in BOOLEAN :
          IF ok THEN Proceed("mkdirData", "mkdirLogs") ELSE ErrorReturn("mkdirData")
    /\ UNCHANGED <<store, ctl, res, locals, obs, pathVars>>

MkdirLogs ==
    /\ pc = "mkdirLogs"
    /\ \E ok \in BOOLEAN :
          IF ok THEN Proceed("mkdirLogs", "newLogger") ELSE ErrorReturn("mkdirLogs")
    /\ UNCHANGED <<store, ctl, res, locals, obs, pathVars>>

NewLogger ==
    /\ pc = "newLogger"
    /\ \E ok \in BOOLEAN :
          IF ok
          THEN /\ Proceed("newLogger", "newDatabase")
               /\ level' = DefaultLogLevel
               /\ opens' = Append(opens, "log")
               /\ defers' = PushDefer(defers, "log")
               /\ UNCHANGED closes
          ELSE /\ ErrorReturn("newLogger")
               /\ UNCHANGED res
    /\ UNCHANGED <<store, ctl, locals, obs, pathVars>>

NewDatabase ==
    /\ pc = "newDatabase"
    /\ \E ok \in BOOLEAN :
          IF ok
          THEN /\ Proceed("newDatabase", "configInit")
               /\ opens' = Append(opens, "db")
               /\ defers' = PushDefer(defers, "db")
               /\ UNCHANGED <<level, closes>>
          ELSE /\ ErrorReturn("newDatabase")
               /\ UNCHANGED res
    /\ UNCHANGED <<store, ctl, locals, obs, pathVars>>

ConfigInit ==
    /\ pc = "configInit"
    /\ \E ok \in BOOLEAN :
          IF ok THEN Proceed("configInit", "getLogLevel") ELSE ErrorReturn("configInit")
    /\ UNCHANGED <<store, ctl, res, locals, obs, pathVars>>

GetLogLevel ==
    /\ pc = "getLogLevel"
    /\ \E ok \in BOOLEAN :
          IF ok
          THEN /\ Proceed("getLogLevel", "setLogLevel")
               /\ cfgLogLevel' = cfg.logLevel
          ELSE /\ ErrorReturn("getLogLevel")
               /\ UNCHANGED cfgLogLevel
    /\ UNCHANGED <<store, ctl, res, updateNotify, tStr, t, obs, pathVars>>

SetLogLevel ==
    /\ pc = "setLogLevel"
    /\ LET r == SetLevel(level, cfgLogLevel) IN
          /\ level' = r.level
          /\ IF r.err THEN ErrorReturn("setLogLevel")
             ELSE Proceed("setLogLevel", "getUpdateNotify")
    /\ UNCHANGED <<store, ctl, opens, defers, closes, locals, obs, pathVars>>

GetUpdateNotify ==
    /\ pc = "getUpdateNotify"
    /\ \E ok \in BOOLEAN :
          IF ok
          THEN /\ Proceed("getUpdateNotify", Gate(cfg.updateNotify))
               /\ updateNotify' = cfg.updateNotify
          ELSE /\ ErrorReturn("getUpdateNotify")
               /\ UNCHANGED updateNotify
    /\ UNCHANGED <<store, ctl, res, cfgLogLevel, tStr, t, obs, pathVars>>

GetLastUpdateCheck ==
    /\ pc = "getLastUpdateCheck"
    /\ tsRead' = TRUE
    /\ \E ok \in BOOLEAN :
          IF ok
          THEN /\ Proceed("getLastUpdateCheck", "parseTime")
               /\ tStr' = cfg.lastUpdateCheck
          ELSE /\ ErrorReturn("getLastUpdateCheck")
               /\ UNCHANGED tStr
    /\ UNCHANGED <<store, ctl, res, cfgLogLevel, updateNotify, t, pathVars>>
    /\ UNCHANGED <<startTs, runStart, sinceAt, setAt, checkCount, checkRes, noticeCount,
                   beforeDone, actionLevels>>

ParseTime ==
    /\ pc = "parseTime"
    /\ LET r == Parse(tStr) IN
          IF r.err
          THEN /\ ErrorReturn("parseTime")
               /\ UNCHANGED t
          ELSE /\ Proceed("parseTime", "since")
               /\ t' = r.t
    /\ UNCHANGED <<store, ctl, res, cfgLogLevel, updateNotify, tStr, obs, pathVars>>

\* if time.Since(t) > 24*time.Hour
SinceTest ==
    /\ pc = "since"
    /\ \E d \in Delays : now' = now + d
    /\ sinceAt' = now'
    /\ Proceed("since", IF Due(t, now') THEN "setLastUpdateCheck" ELSE "appBefore")
    /\ UNCHANGED <<cfg, runs, prevFail, ctl, res, locals, pathVars>>
    /\ UNCHANGED <<startTs, runStart, tsRead, setAt, checkCount, checkRes, noticeCount,
                   beforeDone, actionLevels>>

SetLastUpdateCheck_lost ==
    /\ pc = "setLastUpdateCheck"
    /\ \E d \in Delays : now' = now + d
    /\ \E ok \in BOOLEAN :
          IF ok
          THEN /\ Proceed("setLastUpdateCheck", "updateCheck")
               /\ cfg' = cfg
               /\ setAt' = now'
          ELSE /\ ErrorReturn("setLastUpdateCheck")
               /\ UNCHANGED <<cfg, setAt>>
    /\ UNCHANGED <<runs, prevFail, ctl, res, locals, pathVars>>
    /\ UNCHANGED <<startTs, runStart, tsRead, sinceAt, checkCount, checkRes, noticeCount,
                   beforeDone, actionLevels>>

\* config.Set(ctx, "lastUpdateCheck", time.Now().Format(time.RFC3339))
SetLastUpdateCheck ==
    /\ pc = "setLastUpdateCheck"
    /\ \E d \in Delays : now' = now + d
    /\ \E ok \in BOOLEAN :
          IF ok
          THEN /\ Proceed("setLastUpdateCheck", "updateCheck")
               /\ cfg' = [cfg EXCEPT !.lastUpdateCheck = Format(now')]
               /\ setAt' = now'
          ELSE /\ ErrorReturn("setLastUpdateCheck")
               /\ UNCHANGED <<cfg, setAt>>
    /\ UNCHANGED <<runs, prevFail, ctl, res, locals, pathVars>>
    /\ UNCHANGED <<startTs, runStart, tsRead, sinceAt, checkCount, checkRes, noticeCount,
                   beforeDone, actionLevels>>

CheckOutcomes == {"available", "current", "err", "crash"}

UpdateCheck_tolerant ==
    /\ pc = "updateCheck"
    /\ checkCount' = checkCount + 1
    /\ \E out \in CheckOutcomes :
          /\ checkRes' = out
          /\ noticeCount' = IF out = "available" THEN noticeCount + 1 ELSE noticeCount
          /\ prevFail' = IF out \in {"err", "crash"}
                         THEN [some |-> TRUE, run |-> runs, start |-> runStart, at |-> now,
                               sec |-> cfg.lastUpdateCheck.sec]
                         ELSE prevFail
          /\ IF out = "crash"
             THEN /\ pc' = "crashed"
                  /\ executed' = Append(executed, "updateCheck")
                  /\ UNCHANGED <<failed, ret>>
             ELSE Proceed("updateCheck", "appBefore")
    /\ UNCHANGED <<cfg, now, runs, ctl, res, locals, pathVars>>
    /\ UNCHANGED <<startTs, runStart, tsRead, sinceAt, setAt, beforeDone, actionLevels>>

\* updateAvailable, err := update.Check(ctx), and the notice
UpdateCheck ==
    /\ pc = "updateCheck"
    /\ checkCount' = checkCount + 1
    /\ \E out \in CheckOutcomes :
          /\ checkRes' = out
          /\ noticeCount' = IF out = "available" THEN noticeCount + 1 ELSE noticeCount
          /\ prevFail' = IF out \in {"err", "crash"}
                         THEN [some |-> TRUE, run |-> runs, start |-> runStart, at |-> now,
                               sec |-> cfg.lastUpdateCheck.sec]
                         ELSE prevFail
          /\ CASE out = "err" -> ErrorReturn("updateCheck")
               [] out = "crash" -> /\ pc' = "crashed"
                                   /\ executed' = Append(executed, "updateCheck")
                                   /\ UNCHANGED <<failed, ret>>
               [] OTHER -> Proceed("updateCheck", "appBefore")
    /\ UNCHANGED <<cfg, now, runs, ctl, res, locals, pathVars>>
    /\ UNCHANGED <<startTs, runStart, tsRead, sinceAt, setAt, beforeDone, actionLevels>>

\* app.Run: the Before hook
AppBefore ==
    /\ pc = "appBefore"
    /\ LET logLevel == String(args) IN
          IF FlagOverrides(logLevel)
          THEN LET r == SetLevel(level, logLevel) IN
               /\ level' = r.level
               /\ IF r.err
                  THEN /\ ErrorReturn("appBefore")
                       /\ UNCHANGED beforeDone
                  ELSE /\ Proceed("appBefore", "appAction")
                       /\ beforeDone' = TRUE
          ELSE /\ Proceed("appBefore", "appAction")
               /\ beforeDone' = TRUE
               /\ UNCHANGED level
    /\ UNCHANGED <<store, ctl, opens, defers, closes, locals, pathVars>>
    /\ UNCHANGED <<startTs, runStart, tsRead, sinceAt, setAt, checkCount, checkRes,
                   noticeCount, actionLevels>>

\* app.Run: the selected command's action
AppAction ==
    /\ pc = "appAction"
    /\ actionLevels' = Append(actionLevels, level)
    /\ \E ok \in BOOLEAN :
          IF ok
          THEN /\ pc' = "return" /\ ret' = 0
               /\ executed' = Append(executed, "appAction")
               /\ UNCHANGED failed
          ELSE ErrorReturn("appAction")
    /\ UNCHANGED <<store, ctl, res, locals, pathVars>>
    /\ UNCHANGED <<startTs, runStart, tsRead, sinceAt, setAt, checkCount, checkRes,
                   noticeCount, beforeDone>>

\* run() returns: the deferred calls, last registered first
Deferred ==
    /\ pc = "return"
    /\ defers # <<>>
    /\ closes' = Append(closes, Head(defers))
    /\ defers' = Tail(defers)
    /\ UNCHANGED <<store, ctl, flow, level, opens, locals, obs, pathVars>>

\* os.Exit(run())
Exit ==
    /\ pc = "return"
    /\ defers = <<>>
    /\ exitCode' = ret
    /\ pc' = "exited"
    /\ UNCHANGED <<store, args, executed, failed, ret, res, locals, obs, pathVars>>

Next ==
    \/ StartRun \/ GetDataPath \/ MkdirData \/ MkdirLogs \/ NewLogger \/ NewDatabase
    \/ ConfigInit \/ GetLogLevel \/ SetLogLevel \/ GetUpdateNotify
    \/ GetLastUpdateCheck \/ ParseTime \/ SinceTest \/ SetLastUpdateCheck \/ UpdateCheck
    \/ AppBefore \/ AppAction \/ Deferred \/ Exit

Spec == Init /\ [][Next]_vars

\* ------------------------------------------ getDataPath over all index files
InitPath ==
    /\ cfg = [logLevel |-> DefaultLogLevel, updateNotify |-> FALSE,
              lastUpdateCheck |-> [ok |-> TRUE, sec |-> 0]]
    /\ now = 0 /\ runs = 0 /\ prevFail = NoFail
    /\ pc = "idle" /\ args = [set |-> FALSE, log |-> DefaultLogLevel]
    /\ startTs = NoStr /\ runStart = 0
    /\ RunReset
    /\ pathIn \in PathInputs /\ pathOut = NoPathOut

CallGetDataPath ==
    /\ pc = "idle"
    /\ ~pathOut.called
    /\ LET r == getDataPath(pathIn) IN
          pathOut' = [called |-> TRUE, err |-> r.err, path |-> r.path]
    /\ UNCHANGED <<store, ctl, flow, res, locals, obs, pathIn>>

NextPath == CallGetDataPath

SpecPath == InitPath /\ [][NextPath]_vars

\* ============================================================== properties
Range(q) == {q[i] : i \in 1..Len(q)}
Terminal == {"exited", "crashed"}
DayTicks == 24 * 60 * 60 * TicksPerSec
\* the stored timestamp the run started with, as a clock value
StartT == startTs.sec * TicksPerSec
\* the 24-hour test was evaluated, more than 24 hours after the stored timestamp
StaleAtTest == sinceAt # NoTime /\ sinceAt - StartT > DayTicks
AppDispatched == "appBefore" \in Range(executed)

\* ---- C1
\* C1 as stated: a run with updateNotify true whose stored timestamp is more
\* than 24 hours old overwrites the timestamp with the current time and calls
\* update.Check exactly once.
C1_Original ==
    (pc \in Terminal /\ updateNotify /\ StaleAtTest)
        => /\ setAt # NoTime
           /\ cfg.lastUpdateCheck = [ok |-> TRUE, sec |-> setAt \div TicksPerSec]
           /\ checkCount = 1

\* C1 amended: the same, provided the write of the new timestamp succeeds; when
\* the write fails the run returns 1, the timestamp is unchanged and
\* update.Check is not called.
C1_StaleChecksOnce ==
    (pc \in Terminal /\ updateNotify /\ StaleAtTest)
        => IF failed = "setLastUpdateCheck"
           THEN /\ checkCount = 0 /\ cfg.lastUpdateCheck = startTs /\ exitCode = 1
           ELSE /\ setAt # NoTime /\ setAt >= sinceAt
                /\ cfg.lastUpdateCheck = [ok |-> TRUE, sec |-> setAt \div TicksPerSec]
                /\ checkCount = 1

C1_Witness ==
    /\ pc = "exited" /\ updateNotify /\ StaleAtTest
    /\ checkCount = 1 /\ setAt # NoTime
    /\ cfg.lastUpdateCheck # startTs

\* ---- C2
\* C2: while the clock is less than 24 hours past the stored timestamp the run
\* started with, update.Check has not been called, no notice has been printed
\* and the stored timestamp is the one the run started with.
C2_FreshNoCheck ==
    (runs >= 1 /\ startTs.ok /\ now - StartT < DayTicks)
        => /\ checkCount = 0
           /\ noticeCount = 0
           /\ setAt = NoTime
           /\ cfg.lastUpdateCheck = startTs

C2_Witness ==
    /\ pc = "exited" /\ updateNotify /\ sinceAt # NoTime
    /\ now - StartT < DayTicks /\ now - StartT > 0
    /\ checkCount = 0 /\ exitCode = 0

\* ---- C3
\* a run that called update.Check after an earlier run's check failed or crashed
CheckAfterFailure == checkCount >= 1 /\ prevFail.some /\ prevFail.run < runs

\* C3 as stated: the timestamp is persisted before update.Check is called, and
\* a run whose check failed or crashed is never followed by another check in a
\* run started less than 24 hours later.
C3_Original ==
    /\ (pc = "updateCheck" \/ checkCount >= 1)
          => cfg.lastUpdateCheck = [ok |-> TRUE, sec |-> setAt \div TicksPerSec]
    /\ CheckAfterFailure => runStart - prevFail.start >= DayTicks

\* C3 amended: the timestamp is persisted before update.Check is called, and a
\* run whose check failed or crashed is never followed by another check in a
\* run whose 24-hour test is evaluated 24 hours or less after the persisted
\* timestamp, which is the failed run's write time cut to whole seconds.
C3_PersistBeforeCheck ==
    /\ (pc = "updateCheck" \/ checkCount >= 1)
          => /\ setAt # NoTime
             /\ cfg.lastUpdateCheck = [ok |-> TRUE, sec |-> setAt \div TicksPerSec]
    /\ CheckAfterFailure => sinceAt - prevFail.sec * TicksPerSec > DayTicks

C3_Witness ==
    /\ prevFail.some /\ prevFail.run < runs
    /\ pc = "exited" /\ sinceAt # NoTime /\ sinceAt > prevFail.at
    /\ checkCount = 0 /\ AppDispatched

\* ---- C4
\* C4 as stated: an invalid stored timestamp makes run() exit with code 1
\* without the update check and without dispatching the CLI app.
C4_Original ==
    (pc \in Terminal /\ runs >= 1 /\ ~startTs.ok)
        => /\ pc = "exited" /\ exitCode = 1
           /\ checkCount = 0
           /\ ~AppDispatched

\* C4 amended: when updateNotify is true, an invalid stored timestamp makes
\* run() exit with code 1 without the update check and without dispatching the
\* CLI app; no step runs twice and the process does not crash.
C4_InvalidTimestampFatal ==
    (runs >= 1 /\ ~startTs.ok /\ cfg.updateNotify)
        => /\ pc # "crashed"
           /\ checkCount = 0 /\ setAt = NoTime /\ sinceAt = NoTime
           /\ ~AppDispatched
           /\ Cardinality(Range(executed)) = Len(executed)
           /\ "parseTime" \in Range(executed) => pc \in {"return", "exited"} /\ ret = 1
           /\ pc = "exited" => exitCode = 1

C4_Witness ==
    /\ pc = "exited" /\ ~startTs.ok /\ cfg.updateNotify
    /\ failed = "parseTime" /\ exitCode = 1

\* ---- C5
\* C5: once update.Check has returned an error the run only returns 1: the
\* check was called once, no notice was printed, the CLI app is not run, and
\* the timestamp written before the check stays in the store.
C5_CheckErrorFatal ==
    checkRes = "err"
        => /\ pc \in {"return", "exited"} /\ ret = 1
           /\ pc = "exited" => exitCode = 1
           /\ checkCount = 1
           /\ noticeCount = 0
           /\ ~AppDispatched
           /\ executed[Len(executed)] = "updateCheck"
           /\ setAt # NoTime
           /\ cfg.lastUpdateCheck = [ok |-> TRUE, sec |-> setAt \div TicksPerSec]

C5_Witness ==
    /\ checkRes = "err" /\ pc = "exited" /\ exitCode = 1
    /\ cfg.lastUpdateCheck # startTs

\* ---- C6
\* C6: when run() has returned, the exit code is 1 exactly if some step
\* returned an error and 0 otherwise, and the failing step is the last step
\* that was executed.
C6_ExitCode ==
    /\ pc = "exited"
          => /\ exitCode \in {0, 1}
             /\ exitCode = 1 <=> failed # "none"
             /\ exitCode = 0 <=> "appAction" \in Range(executed) /\ failed = "none"
    /\ failed # "none"
          => /\ pc \in {"return", "exited"}
             /\ executed[Len(executed)] = failed
             /\ \A i \in 1..(Len(executed) - 1) : executed[i] # failed

C6_Witness ==
    /\ pc = "exited" /\ exitCode = 1 /\ failed = "configInit"
    /\ executed[Len(executed)] = "configInit"

\* ---- C7
\* C7 as stated: once the Before hook has run with an explicit, valid --log
\* flag, the logger's level is the flag's value, for every subcommand action
\* and for the rest of the run, whatever level the configuration stores.
C7_Claim ==
    (beforeDone /\ args.set /\ args.log \in Levels)
        => /\ level = args.log
           /\ \A i \in 1..Len(actionLevels) : actionLevels[i] = args.log

\* ---- C8
LFs(c) == {i \in 1..Len(c) : c[i] = LF}
\* lines of a text: each newline ends one, and so does a non-empty rest
NumLines(c) ==
    Cardinality(LFs(c)) + (IF Len(c) > 0 /\ c[Len(c)] # LF THEN 1 ELSE 0)
Least(S) == CHOOSE i \in S : \A j \in S : i <= j
\* the text between the first newline and the next (or the end of the file),
\* without the carriage return of its end-of-line marker
SecondLine(c) ==
    LET p1 == Least(LFs(c))
        later == {i \in LFs(c) : i > p1}
        last == IF later = {} THEN Len(c) ELSE Least(later) - 1
    IN  IF last > p1 /\ c[last] = CR THEN [i \in 1..(last - p1 - 1) |-> c[p1 + i]]
        ELSE [i \in 1..(last - p1) |-> c[p1 + i]]

\* C8 as stated: as root, getDataPath returns the second line of the index
\* file whenever the file has at least two lines, and an error whenever the
\* file cannot be opened or has fewer than two lines.
C8_Original ==
    (pathOut.called /\ pathIn.euid = 0)
        => IF ~pathIn.openErr /\ NumLines(pathIn.content) >= 2
           THEN ~pathOut.err /\ pathOut.path = SecondLine(pathIn.content)
           ELSE pathOut.err

\* C8 amended: as root, getDataPath returns the second line of the index file
\* whenever the file is opened and scanned without error and has at least two
\* lines, and an error whenever the file cannot be opened, scanning it fails,
\* or it has fewer than two lines.
C8_SecondLine ==
    (pathOut.called /\ pathIn.euid = 0)
        => IF ~pathIn.openErr /\ ~pathIn.readErr /\ NumLines(pathIn.content) >= 2
           THEN ~pathOut.err /\ pathOut.path = SecondLine(pathIn.content)
           ELSE pathOut.err /\ pathOut.path = <<>>

C8_Witness ==
    /\ pathOut.called /\ pathIn.euid = 0 /\ ~pathOut.err
    /\ pathIn.content = <<"a", LF, " ", "a">>
    /\ pathOut.path = <<" ", "a">>

\* ---- C9
\* C9: in a run over a store whose updateNotify is false, update.Check is not
\* called, lastUpdateCheck is neither read nor written and no notice is
\* printed, however old the stored timestamp is.
C9_NotifyOffNoCheck ==
    (runs >= 1 /\ ~cfg.updateNotify)
        => /\ checkCount = 0
           /\ ~tsRead /\ sinceAt = NoTime
           /\ setAt = NoTime /\ cfg.lastUpdateCheck = startTs
           /\ noticeCount = 0

C9_Witness ==
    /\ pc = "exited" /\ ~cfg.updateNotify /\ exitCode = 0
    /\ startTs.ok /\ now - StartT > DayTicks

\* ---- C10
IsResource(x) == x \in {"db", "log"}
Closed == SelectSeq(closes, IsResource)
Reverse(q) == [i \in 1..Len(q) |-> q[Len(q) + 1 - i]]

\* C10: when run() has returned, what was opened has been closed exactly once,
\* the database before the logger, and nothing else was closed; nothing is
\* closed before run() returns.
C10_ClosedOnReturn ==
    /\ pc = "exited" => Closed = Reverse(opens)
    /\ pc \notin {"return", "exited"} => closes = <<>>
    /\ \A x \in Range(Closed) : x \in Range(opens)
    /\ Len(Closed) <= Len(opens)

C10_Witness ==
    /\ pc = "exited" /\ failed = "getUpdateNotify"
    /\ opens = <<"log", "db">>
    /\ closes = <<"db", "log", "stop">>
====
